---- MODULE Spec2Model ----
(***************************************************************************)
(* Zus Coffee chatbot: session store (SessionManager), instrumented tools  *)
(* (AgentTools, log_tool_call), the agent entry points (ChatAgent) and the *)
(* /chat, /chat-stream, /products and /outlets request handlers.           *)
(***************************************************************************)
EXTENDS Integers, Sequences, FiniteSets, TLC

VARIABLES
    sessions,             \* SessionManager.sessions: id -> session record
    issued,               \* identifiers uuid4 has produced so far
    now,                  \* datetime.now(), in hours
    tool_calls_metadata,  \* AgentTools.tool_calls_metadata (one list per AgentTools)
    invoked,              \* the invocations made on AgentTools directly since the last clear
    turns,                \* one record per request (turn)
    last                  \* the last completed call and what it returned

vars == <<sessions, issued, now, tool_calls_metadata, invoked, turns, last>>

\* ---------------------------------------------------------------- bounds
MaxSessions == 2
MaxHist == 2
MaxTime == 25
MaxTurns == 2
MaxCalls == 2

\* SessionManager.__init__(session_timeout_hours=24)
SessionTimeoutHours == 24

SessionIds == 1..MaxSessions
Messages == {"m1", "m2"}
TurnIds == 1..MaxTurns

\* Python's None where a history is expected (histories hold only Messages)
None == <<"None">>

\* the histories handed to update_session_history when the store is used directly
Histories == {<<>>, <<"m1">>, <<"m2">>, <<"m1", "m2">>}

\* ------------------------------------------------------- SessionManager
\* (mutant) an identifier is drawn without regard to those produced before
uuid4_reused(used) == SessionIds

\* uuid.uuid4(): an identifier never produced before
uuid4(used) == SessionIds \ used

\* (mutant) create_session rebuilds the store around the new session
create_session_alone(S, id, t) ==
    [x \in {id} |->
        [created_at |-> t, last_activity |-> t, message_history |-> <<>>]]

\* create_session: the store after self.sessions[session_id] = {...}
create_session(S, id, t) ==
    [x \in DOMAIN S \cup {id} |->
        IF x = id
        THEN [created_at |-> t, last_activity |-> t, message_history |-> <<>>]
        ELSE S[x]]

\* get_session: self.sessions.get(session_id)
session_exists(S, id) == id \in DOMAIN S

\* (mutant) touching an identifier the store does not hold creates it
update_session_activity_upsert(S, id, t) ==
    IF id \in DOMAIN S
    THEN [S EXCEPT ![id].last_activity = t]
    ELSE [x \in DOMAIN S \cup {id} |->
            IF x = id
            THEN [created_at |-> t, last_activity |-> t, message_history |-> <<>>]
            ELSE S[x]]

\* (mutant) touching a session also resets its creation time
update_session_activity_restart(S, id, t) ==
    IF id \in DOMAIN S
    THEN [S EXCEPT ![id].last_activity = t, ![id].created_at = t]
    ELSE S

\* (mutant) touching a session also empties its history
update_session_activity_clear(S, id, t) ==
    IF id \in DOMAIN S
    THEN [S EXCEPT ![id].last_activity = t, ![id].message_history = <<>>]
    ELSE S

\* (mutant) touching a session stores the sweep's cutoff, not the clock
update_session_activity_rewind(S, id, t) ==
    IF id \in DOMAIN S
    THEN [S EXCEPT ![id].last_activity = t - SessionTimeoutHours]
    ELSE S

update_session_activity(S, id, t) ==
    IF id \in DOMAIN S
    THEN [S EXCEPT ![id].last_activity = t]
    ELSE S

update_session_activity_ret(S, id) == id \in DOMAIN S

\* (mutant) the new history is appended to the stored one
update_session_history_extend(S, id, h) ==
    IF id \in DOMAIN S
    THEN [S EXCEPT ![id].message_history = @ \o h]
    ELSE S

update_session_history(S, id, h) ==
    IF id \in DOMAIN S
    THEN [S EXCEPT ![id].message_history = h]
    ELSE S

update_session_history_ret(S, id) == id \in DOMAIN S

get_session_history(S, id) ==
    IF id \in DOMAIN S THEN S[id].message_history ELSE None

\* (mutant) the cutoff is compared with <=: a session idle for exactly the
\* timeout is collected too
expired_sessions_inclusive(S, t) ==
    {id \in DOMAIN S : S[id].last_activity <= t - SessionTimeoutHours}

\* the identifiers cleanup_old_sessions collects in expired_sessions
expired_sessions(S, t) ==
    {id \in DOMAIN S : S[id].last_activity < t - SessionTimeoutHours}

\* (mutant) the sweep removes nothing
cleanup_old_sessions_idle(S, t) == S

cleanup_old_sessions(S, t) ==
    [x \in DOMAIN S \ expired_sessions(S, t) |-> S[x]]

cleanup_old_sessions_ret(S, t) == Cardinality(expired_sessions(S, t))

\* ----------------------------------------------------------- AgentTools
\* Texts are sequences of one-character strings, so that strip() and
\* startswith() act on characters as in Python.
Whitespace == {" ", "\n", "\t"}

RECURSIVE lstrip(_)
lstrip(s) ==
    IF s # <<>> /\ Head(s) \in Whitespace THEN lstrip(Tail(s)) ELSE s

RECURSIVE rstrip(_)
rstrip(s) ==
    IF s # <<>> /\ s[Len(s)] \in Whitespace
    THEN rstrip(SubSeq(s, 1, Len(s) - 1))
    ELSE s

\* str.strip()
strip(s) == rstrip(lstrip(s))

\* str.startswith(prefix)
startswith(s, prefix) ==
    /\ Len(s) >= Len(prefix)
    /\ SubSeq(s, 1, Len(prefix)) = prefix

\* the marker the translator is told to emit when it refuses
RefusalMarker == <<"-", "-">>

\* (mutant) the marker is looked for without trimming first
is_refusal_untrimmed(sql_query) == startswith(sql_query, RefusalMarker)

\* agent_tools.py line 186: sql_query.strip().startswith('--')
is_refusal(sql_query) == startswith(strip(sql_query), RefusalMarker)

\* what the text-to-SQL model may emit as result.data; the orchestration has no
\* control over it, so texts that break the prompt's rules are included
TranslatorTexts ==
    { <<"S","E","L","E","C","T"," ","*">>,
      <<"s","e","l","e","c","t"," ","*",";">>,
      <<"S","E","L","E","C","T"," ","*",";"," ","D","R","O","P">>,
      <<"D","E","L","E","T","E">>,
      <<"-","-"," ","n","o">>,
      <<" ","\n","-","-"," ","n","o">> }

\* the translator either raises or returns a text
TranslatorOutcomes ==
    {[raised |-> TRUE, data |-> None]}
        \cup {[raised |-> FALSE, data |-> x] : x \in TranslatorTexts}

\* Database.execute_query: raises, or returns rows; rows may hold values
\* json.dumps cannot serialize
RowLists == {<<"row1">>}
DbOutcomes ==
    {[raised |-> TRUE, rows |-> <<>>, serializable |-> TRUE]}
        \cup {[raised |-> FALSE, rows |-> r, serializable |-> b] :
                r \in RowLists, b \in BOOLEAN}

\* execute_query is reached only with a text that is not a refusal; in the
\* other cases the database's outcome plays no part
DbIdle == [raised |-> FALSE, rows |-> <<>>, serializable |-> TRUE]
DbConsulted(tr) == ~tr.raised /\ ~is_refusal(tr.data)

\* json.dumps([dict(row._mapping) for row in rows], indent=2): a string, not the rows
json_dumps(rows) == <<"json", rows>>

RefusalString == <<"text", "Cannot generate a safe query for this request.">>

\* f"Error executing query: {str(e)}"
ErrorString(e) == <<"text", "Error executing query: ", e>>

\* The record query_outlets_table builds (lines 198-204 and 218-224)
outlet_record(nl_query, query_result, generated_sql) ==
    [tool_name |-> "query_outlets_table",
     tool_kwargs |-> <<<<"nl_query", nl_query>>>>,
     tool_args |-> <<>>,
     result |-> query_result,
     generated_sql |-> generated_sql]

\* (mutant) the text is executed before it is looked at for the refusal marker
query_outlets_try_eager(nl_query, tr, db) ==
    IF tr.raised
    THEN [raised |-> TRUE, exc |-> "translator", ret |-> None,
          appended |-> <<>>, queries |-> <<>>]
    ELSE IF db.raised
    THEN [raised |-> TRUE, exc |-> "database", ret |-> None,
          appended |-> <<>>, queries |-> <<tr.data>>]
    ELSE IF is_refusal(tr.data)
    THEN [raised |-> FALSE, exc |-> "", ret |-> RefusalString,
          appended |-> <<outlet_record(nl_query, RefusalString, tr.data)>>,
          queries |-> <<tr.data>>]
    ELSE IF ~db.serializable
    THEN [raised |-> TRUE, exc |-> "not JSON serializable", ret |-> None,
          appended |-> <<>>, queries |-> <<tr.data>>]
    ELSE [raised |-> FALSE, exc |-> "", ret |-> json_dumps(db.rows),
          appended |-> <<outlet_record(nl_query, json_dumps(db.rows), tr.data)>>,
          queries |-> <<tr.data>>]

\* The try block of query_outlets_table (lines 180-211) from the point where the
\* translator's await returns.  tr: the translator's outcome, db: the
\* database's.  raised: an exception leaves the block; queries: the texts handed
\* to Database.execute_query; appended: the records appended.
query_outlets_try(nl_query, tr, db) ==
    IF tr.raised
    THEN [raised |-> TRUE, exc |-> "translator", ret |-> None,
          appended |-> <<>>, queries |-> <<>>]
    ELSE IF is_refusal(tr.data)
    THEN [raised |-> FALSE, exc |-> "", ret |-> RefusalString,
          appended |-> <<outlet_record(nl_query, RefusalString, tr.data)>>,
          queries |-> <<>>]
    ELSE IF db.raised
    THEN [raised |-> TRUE, exc |-> "database", ret |-> None,
          appended |-> <<>>, queries |-> <<tr.data>>]
    ELSE IF ~db.serializable
    THEN [raised |-> TRUE, exc |-> "not JSON serializable", ret |-> None,
          appended |-> <<>>, queries |-> <<tr.data>>]
    ELSE [raised |-> FALSE, exc |-> "", ret |-> json_dumps(db.rows),
          appended |-> <<outlet_record(nl_query, json_dumps(db.rows), tr.data)>>,
          queries |-> <<tr.data>>]

\* (mutant) no handler around the try block
query_outlets_unhandled(nl_query, tr, db) == query_outlets_try(nl_query, tr, db)

\* query_outlets_table: the try block, and the handler of lines 213-231
query_outlets_table(nl_query, tr, db) ==
    LET body == query_outlets_try(nl_query, tr, db)
    IN  IF body.raised
        THEN [raised |-> FALSE, exc |-> "", ret |-> ErrorString(body.exc),
              appended |-> <<outlet_record(nl_query, ErrorString(body.exc), None)>>,
              queries |-> body.queries]
        ELSE body

\* The calls an agent (or a test) makes to the decorated tools
ToolCalls ==
    { [tool |-> "get_products", args |-> <<>>, kwargs |-> <<>>],
      [tool |-> "get_similar_products", args |-> <<>>,
       kwargs |-> <<<<"search_query", "mug">>>>],
      [tool |-> "addition_calculator", args |-> << <<1, 2, 3, 4>> >>, kwargs |-> <<>>],
      [tool |-> "multiplication_calculator", args |-> <<5, 6>>, kwargs |-> <<>>] }

NlQueries == {"Show all outlets"}

\* whether the database and the embedding service answer
Backends == {"ok", "unavailable"}

\* (mutant) the sum is started from the first number, which is then added too
sum_from_first(numbers) ==
    LET RECURSIVE from(_, _)
        from(acc, rest) ==
            IF rest = <<>> THEN acc ELSE from(acc + Head(rest), Tail(rest))
    IN  IF numbers = <<>> THEN 0 ELSE from(Head(numbers), numbers)

RECURSIVE sum(_)
sum(numbers) == IF numbers = <<>> THEN 0 ELSE Head(numbers) + sum(Tail(numbers))

\* the argument of a call, by position or by keyword
argument(call, i) ==
    IF Len(call.args) >= i THEN call.args[i] ELSE call.kwargs[i - Len(call.args)][2]

\* The undecorated bodies of get_products, get_similar_products,
\* addition_calculator and multiplication_calculator (lines 157-175)
tool_body(call, backend) ==
    IF call.tool \in {"get_products", "get_similar_products"}
    THEN IF backend = "unavailable"
         THEN [raised |-> TRUE, exc |-> "backend unavailable", ret |-> None]
         ELSE [raised |-> FALSE, exc |-> "", ret |-> <<"rows", call.tool>>]
    ELSE IF call.tool = "addition_calculator"
    THEN [raised |-> FALSE, exc |-> "", ret |-> <<"int", sum(argument(call, 1))>>]
    ELSE [raised |-> FALSE, exc |-> "",
          ret |-> <<"int", argument(call, 1) * argument(call, 2)>>]

\* the record log_tool_call builds (lines 118-123)
tool_record(call, result) ==
    [tool_name |-> call.tool,
     tool_kwargs |-> call.kwargs,
     tool_args |-> call.args,
     result |-> result]

\* log_tool_call's wrapper (lines 108-130): result = func(...) comes first, so
\* an exception of func leaves the wrapper before the record is built
log_tool_call(call, backend) ==
    LET body == tool_body(call, backend)
    IN  IF body.raised
        THEN [raised |-> TRUE, exc |-> body.exc, ret |-> None,
              appended |-> <<>>, queries |-> <<>>]
        ELSE [raised |-> FALSE, exc |-> "", ret |-> body.ret,
              appended |-> <<tool_record(call, body.ret)>>, queries |-> <<>>]

\* get_and_clear_tool_metadata: the copy it returns, and the list after clear()
get_and_clear_tool_metadata_ret(acc) == acc
get_and_clear_tool_metadata(acc) == <<>>

\* -------------------------------------------------------------- state
IdleTurn == [pc |-> "idle"]

Init ==
    /\ sessions = <<>>
    /\ issued = {}
    /\ now = 0
    /\ tool_calls_metadata = <<>>
    /\ invoked = <<>>
    /\ turns = [t \in TurnIds |-> IdleTurn]
    /\ last = [op |-> "none"]

\* ------------------------------------- AgentTools used directly (tests)
\* an invocation as the caller sees it
Invocation(name, out) ==
    [tool_name |-> name, raised |-> out.raised, ret |-> out.ret,
     appended |-> out.appended, queries |-> out.queries]

\* tools.addition_calculator(...), tools.get_products(), ...
CallTool(call, backend) ==
    /\ Len(invoked) < MaxCalls
    /\ LET out == log_tool_call(call, backend)
       IN  /\ tool_calls_metadata' = tool_calls_metadata \o out.appended
           /\ invoked' = Append(invoked, Invocation(call.tool, out))
           /\ last' = [op |-> "tool", call |-> call, backend |-> backend, out |-> out]
    /\ UNCHANGED <<sessions, issued, now, turns>>

\* await tools.query_outlets_table(nl_query)
CallQueryOutlets(nl_query, tr, db) ==
    /\ Len(invoked) < MaxCalls
    /\ LET out == query_outlets_table(nl_query, tr, db)
       IN  /\ tool_calls_metadata' = tool_calls_metadata \o out.appended
           /\ invoked' = Append(invoked, Invocation("query_outlets_table", out))
           /\ last' = [op |-> "query_outlets_table", nl_query |-> nl_query,
                       tr |-> tr, db |-> db, out |-> out]
    /\ UNCHANGED <<sessions, issued, now, turns>>

\* tools.get_and_clear_tool_metadata()
GetAndClear ==
    /\ last' = [op |-> "get_and_clear_tool_metadata",
                ret |-> get_and_clear_tool_metadata_ret(tool_calls_metadata),
                invoked |-> invoked]
    /\ tool_calls_metadata' = get_and_clear_tool_metadata(tool_calls_metadata)
    /\ invoked' = <<>>
    /\ UNCHANGED <<sessions, issued, now, turns>>

NextTools ==
    \/ \E call \in ToolCalls, backend \in Backends : CallTool(call, backend)
    \/ \E nl \in NlQueries, tr \in TranslatorOutcomes :
          \E db \in (IF DbConsulted(tr) THEN DbOutcomes ELSE {DbIdle}) :
              CallQueryOutlets(nl, tr, db)
    \/ GetAndClear

SpecTools == Init /\ [][NextTools]_vars

\* ------------------------------------------------------ the calculators
\* the most numbers one addition is given
MaxNumbers == 2

\* the integers the calculators are given
Numbers == {-2, 0, 3}

\* list[int] arguments: the empty list included
NumberLists ==
    UNION {[1..n -> Numbers] : n \in 0..MaxNumbers}

\* the calculators called by keyword, as the agent calls its tools, and by
\* position with the numbers of test_tool_metadata.py
CalculatorCalls ==
    {[tool |-> "addition_calculator", args |-> <<>>,
      kwargs |-> <<<<"numbers", l>>>>] : l \in NumberLists}
    \cup {[tool |-> "multiplication_calculator", args |-> <<>>,
            kwargs |-> <<<<"num", a>>, <<"multiplier", b>>>>] :
                a \in Numbers, b \in Numbers}
    \cup {c \in ToolCalls : c.tool \in {"addition_calculator",
                                        "multiplication_calculator"}}

\* AgentTools whose calculators are called, and drained
NextCalc ==
    \/ \E call \in CalculatorCalls : CallTool(call, "ok")
    \/ GetAndClear

SpecCalc == Init /\ [][NextCalc]_vars

\* ------------------------------------------- lists handed to callers
\* A Python list is an object: a caller handed the accumulator itself would
\* see every later clear() and append().  A reference names the accumulator
\* or a list of its own, with the records that list holds.

\* (mutant) metadata = self.tool_calls_metadata: no copy is made
copy_alias(acc) == [object |-> "tool_calls_metadata"]

\* self.tool_calls_metadata.copy(): a new list holding the same records
copy(acc) == [object |-> "copy", items |-> acc]

\* the records the holder of a reference reads while the accumulator holds acc
items_of(metadata, acc) ==
    IF metadata.object = "tool_calls_metadata" THEN acc ELSE metadata.items

\* the tools called between two drains
SnapshotCalls ==
    {c \in ToolCalls : c.tool \in {"addition_calculator",
                                   "multiplication_calculator"}}

\* a decorated tool appends its record (self.tool_calls_metadata.append)
ToolAppends(call) ==
    /\ Len(tool_calls_metadata) < MaxCalls
    /\ LET out == log_tool_call(call, "ok")
       IN  /\ tool_calls_metadata' = tool_calls_metadata \o out.appended
           /\ last' = [op |-> "tool", call |-> call, backend |-> "ok", out |-> out]
    /\ UNCHANGED <<sessions, issued, now, invoked, turns>>

\* self.tools.tool_calls_metadata.clear() at the start of a turn
Clear ==
    /\ tool_calls_metadata' = <<>>
    /\ last' = [op |-> "clear"]
    /\ UNCHANGED <<sessions, issued, now, invoked, turns>>

\* get_and_clear_tool_metadata() whose caller keeps the list it was returned
GetAndClearKept ==
    /\ Len(invoked) < MaxTurns
    /\ invoked' = Append(invoked, [op |-> "get_and_clear_tool_metadata",
                                   metadata |-> copy(tool_calls_metadata)])
    /\ tool_calls_metadata' = get_and_clear_tool_metadata(tool_calls_metadata)
    /\ last' = [op |-> "get_and_clear_tool_metadata",
                ret |-> get_and_clear_tool_metadata_ret(tool_calls_metadata),
                invoked |-> <<>>]
    /\ UNCHANGED <<sessions, issued, now, turns>>

NextSnapshot ==
    \/ \E call \in SnapshotCalls : ToolAppends(call)
    \/ Clear
    \/ GetAndClearKept

SpecSnapshot == Init /\ [][NextSnapshot]_vars

\* --------------------------------- SessionManager used directly (its API)
\* the clock moves on; sessions time out after SessionTimeoutHours
Tick(d) ==
    /\ now + d <= MaxTime
    /\ now' = now + d
    /\ last' = [op |-> "none"]
    /\ UNCHANGED <<sessions, issued, tool_calls_metadata, invoked, turns>>

\* session_manager.create_session(); also POST /session/new (main.py)
CreateSession(id) ==
    /\ id \in uuid4(issued)
    /\ sessions' = create_session(sessions, id, now)
    /\ issued' = issued \cup {id}
    /\ last' = [op |-> "create_session", ret |-> id]
    /\ UNCHANGED <<now, tool_calls_metadata, invoked, turns>>

UpdateSessionActivity(id) ==
    /\ sessions' = update_session_activity(sessions, id, now)
    /\ last' = [op |-> "update_session_activity", id |-> id,
                ret |-> update_session_activity_ret(sessions, id)]
    /\ UNCHANGED <<issued, now, tool_calls_metadata, invoked, turns>>

UpdateSessionHistory(id, h) ==
    /\ sessions' = update_session_history(sessions, id, h)
    /\ last' = [op |-> "update_session_history", id |-> id, h |-> h,
                before |-> get_session_history(sessions, id),
                ret |-> update_session_history_ret(sessions, id)]
    /\ UNCHANGED <<issued, now, tool_calls_metadata, invoked, turns>>

GetSessionHistory(id) ==
    /\ last' = [op |-> "get_session_history", id |-> id,
                ret |-> get_session_history(sessions, id)]
    /\ UNCHANGED <<sessions, issued, now, tool_calls_metadata, invoked, turns>>

SessionExists(id) ==
    /\ last' = [op |-> "session_exists", id |-> id,
                ret |-> session_exists(sessions, id)]
    /\ UNCHANGED <<sessions, issued, now, tool_calls_metadata, invoked, turns>>

CleanupOldSessions ==
    /\ sessions' = cleanup_old_sessions(sessions, now)
    /\ last' = [op |-> "cleanup_old_sessions",
                ret |-> cleanup_old_sessions_ret(sessions, now)]
    /\ UNCHANGED <<issued, now, tool_calls_metadata, invoked, turns>>

\* the clock's steps: up to the timeout exactly, and just past it
TickSteps == {SessionTimeoutHours, SessionTimeoutHours + 1}

NextStore ==
    \/ \E d \in TickSteps : Tick(d)
    \/ \E id \in SessionIds : CreateSession(id)
    \/ \E id \in SessionIds : UpdateSessionActivity(id)
    \/ \E id \in SessionIds, h \in Histories : UpdateSessionHistory(id, h)
    \/ \E id \in SessionIds : GetSessionHistory(id)
    \/ \E id \in SessionIds : SessionExists(id)
    \/ CleanupOldSessions

SpecStore == Init /\ [][NextStore]_vars

\* ------------------------- SessionManager constructed with other timeouts
\* cleanup_old_sessions of a SessionManager(session_timeout_hours) holding S:
\* cutoff_time = datetime.now() - timedelta(hours=self.session_timeout_hours)
expired_before(S, t, session_timeout_hours) ==
    {id \in DOMAIN S : S[id].last_activity < t - session_timeout_hours}

\* the timeouts a SessionManager is constructed with: none at all, the
\* default, and one longer than any session can have been idle
Timeouts == {0, SessionTimeoutHours, MaxTime + 1}

CleanupWithTimeout(session_timeout_hours) ==
    /\ sessions' = [x \in DOMAIN sessions
                        \ expired_before(sessions, now, session_timeout_hours)
                     |-> sessions[x]]
    /\ last' = [op |-> "cleanup_old_sessions",
                session_timeout_hours |-> session_timeout_hours,
                ret |-> Cardinality(expired_before(sessions, now,
                                                   session_timeout_hours))]
    /\ UNCHANGED <<issued, now, tool_calls_metadata, invoked, turns>>

NextSweep ==
    \/ \E d \in TickSteps : Tick(d)
    \/ \E id \in SessionIds : CreateSession(id)
    \/ \E id \in SessionIds : UpdateSessionActivity(id)
    \/ \E timeout \in Timeouts : CleanupWithTimeout(timeout)

SpecSweep == Init /\ [][NextSweep]_vars

\* ------------------------------------------------- ChatAgent and router
\* turns[t] is the t-th request (turn) the server is given.  The code between
\* two awaits runs without interruption (one event loop), so each action below
\* is the stretch of a coroutine from one suspension point to the next.
Kinds == {"chat", "products", "outlets"}

\* the tools each agent is given (agent_run.py lines 84-90, 122-124, 163-165);
\* execute_outlets_query is no method of AgentTools
tools_of(kind) ==
    CASE kind = "chat" -> {"addition_calculator", "multiplication_calculator",
                           "get_products", "get_similar_products",
                           "query_outlets_table"}
      [] kind = "products" -> {"get_similar_products"}
      [] OTHER -> {}

\* result.all_messages(): the history given, then this turn's exchange
all_messages(message_history, message) ==
    (IF message_history = None THEN <<>> ELSE message_history) \o <<message>>

\* (mutant) the turn begins without self.tools.tool_calls_metadata.clear()
begin_run_unclear(t, via, kind, message, session_id, message_history) ==
    /\ tool_calls_metadata' = tool_calls_metadata
    /\ turns' = [turns EXCEPT ![t] =
          [pc |-> "running", via |-> via, kind |-> kind, message |-> message,
           session_id |-> session_id, message_history |-> message_history,
           calls |-> 0, pending |-> {}, executing |-> {}, own |-> <<>>,
           started |-> <<>>,
           swept |-> IF via = "router"
                     THEN expired_sessions(sessions, now) ELSE {}]]

\* ChatAgent.chat / product_chat / outlet_chat up to `await agent.run(...)`:
\* self.tools.tool_calls_metadata.clear(), then the agent is awaited.
\* swept remembers the sessions the handler's sweep removed on the way here,
\* started the names of the turn's tool calls in the order they began.
begin_run(t, via, kind, message, session_id, message_history) ==
    /\ tool_calls_metadata' = <<>>
    /\ turns' = [turns EXCEPT ![t] =
          [pc |-> "running", via |-> via, kind |-> kind, message |-> message,
           session_id |-> session_id, message_history |-> message_history,
           calls |-> 0, pending |-> {}, executing |-> {}, own |-> <<>>,
           started |-> <<>>,
           swept |-> IF via = "router"
                     THEN expired_sessions(sessions, now) ELSE {}]]

\* a turn that has ended, as its caller sees it
ended(r, status, tool_calls, updated_history) ==
    [pc |-> "done", via |-> r.via, kind |-> r.kind, message |-> r.message,
     session_id |-> r.session_id, message_history |-> r.message_history,
     own |-> r.own, swept |-> r.swept, status |-> status,
     tool_calls |-> tool_calls, updated_history |-> updated_history]

\* POST /chat (router.py lines 23-44) up to the await of chat_service.chat:
\* sweep, then create a session when the request names none that exists
ChatBeginNew(t, req, message) ==
    /\ turns[t].pc = "idle"
    /\ req = {} \/ \A id \in req : ~session_exists(cleanup_old_sessions(sessions, now), id)
    /\ \E id \in uuid4(issued) :
          /\ sessions' = create_session(cleanup_old_sessions(sessions, now), id, now)
          /\ issued' = issued \cup {id}
          /\ begin_run(t, "router", "chat", message, id, None)
    /\ last' = [op |-> "chat", req |-> req]
    /\ UNCHANGED <<now, invoked>>

\* the same, when the request's session exists after the sweep
ChatBeginExisting(t, id, message) ==
    /\ turns[t].pc = "idle"
    /\ session_exists(cleanup_old_sessions(sessions, now), id)
    /\ Len(get_session_history(sessions, id)) < MaxHist
    /\ sessions' = update_session_activity(cleanup_old_sessions(sessions, now), id, now)
    /\ begin_run(t, "router", "chat", message, id,
                 get_session_history(cleanup_old_sessions(sessions, now), id))
    /\ last' = [op |-> "chat", req |-> {id}]
    /\ UNCHANGED <<issued, now, invoked>>

\* GET /products and GET /outlets (router.py lines 75-87, 131-142) up to the
\* await: sweep, then always a new session
QueryBegin(t, kind, message) ==
    /\ turns[t].pc = "idle"
    /\ kind \in {"products", "outlets"}
    /\ \E id \in uuid4(issued) :
          /\ sessions' = create_session(cleanup_old_sessions(sessions, now), id, now)
          /\ issued' = issued \cup {id}
          /\ begin_run(t, "router", kind, message, id, None)
    /\ last' = [op |-> "none"]
    /\ UNCHANGED <<now, invoked>>

\* agent.chat(...), agent.product_chat(...), agent.outlet_chat(...) called
\* without the router (test_full_agent.py line 28)
DirectBegin(t, kind, message) ==
    /\ turns[t].pc = "idle"
    /\ begin_run(t, "direct", kind, message, 0, None)
    /\ last' = [op |-> "none"]
    /\ UNCHANGED <<sessions, issued, now, invoked>>

\* "Sorry, I encountered an error while processing your "
SorryText ==
    <<"S", "o", "r", "r", "y", ",", " ", "I", " ", "e", "n", "c", "o", "u",
      "n", "t", "e", "r", "e", "d", " ", "a", "n", " ", "e", "r", "r", "o",
      "r", " ", "w", "h", "i", "l", "e", " ", "p", "r", "o", "c", "e", "s",
      "s", "i", "n", "g", " ", "y", "o", "u", "r", " ">>

\* the Exception that chat, product_chat and outlet_chat raise in place of the
\* one they caught (agent_run.py lines 197, 229, 260)
chat_service_exception(kind, e) ==
    SorryText
    \o (IF kind = "products" THEN <<"p", "r", "o", "d", "u", "c", "t", " ">>
        ELSE IF kind = "outlets" THEN <<"o", "u", "t", "l", "e", "t", " ">>
        ELSE <<>>)
    \o <<"r", "e", "q", "u", "e", "s", "t", ":", " ">> \o e

\* HTTPException(status_code, detail), answered as {"detail": detail}
HTTPException(status_code, detail) ==
    [status_code |-> status_code, detail |-> detail]

\* the handlers' except branches: /chat answers a fixed sentence (router.py
\* lines 57-62), /products and /outlets add str(e) (lines 113-118, 155-160)
router_exception(kind, e) ==
    HTTPException(500,
        SorryText \o <<"r", "e", "q", "u", "e", "s", "t">>
        \o (IF kind = "chat" THEN <<".">> ELSE <<":", " ">> \o e))

\* str(e) of what the inference backend or a tool is seen to raise
ExceptionTexts == {<<"b", "o", "o", "m">>}

\* a turn that has failed, as its caller sees it: the router's HTTP 500, or,
\* called directly, the Exception of the chat service
failed(r, own, e) ==
    [pc |-> "done", via |-> r.via, kind |-> r.kind, message |-> r.message,
     session_id |-> r.session_id, message_history |-> r.message_history,
     own |-> own, swept |-> r.swept, status |-> "error",
     tool_calls |-> <<>>, updated_history |-> None,
     fault |-> IF r.via = "router"
               THEN router_exception(r.kind, chat_service_exception(r.kind, e))
               ELSE [exception |-> chat_service_exception(r.kind, e)]]

\* agent.run raises and the turn ends in the except branches
fail_turn(t, own) ==
    \E e \in ExceptionTexts :
        turns' = [turns EXCEPT ![t] = failed(turns[t], own, e)]

\* the agent calls one of the decorated tools; an exception of the tool leaves
\* agent.run and ends the turn
AgentCallsTool(t, call, backend) ==
    /\ turns[t].pc = "running"
    /\ call.tool \in tools_of(turns[t].kind)
    /\ turns[t].calls < MaxCalls
    /\ LET out == log_tool_call(call, backend)
       IN  /\ tool_calls_metadata' = tool_calls_metadata \o out.appended
           /\ IF out.raised
              THEN fail_turn(t, turns[t].own)
              ELSE turns' = [turns EXCEPT ![t].calls = @ + 1,
                                          ![t].started = Append(@, call.tool),
                                          ![t].own = @ \o out.appended]
    /\ last' = [op |-> "none"]
    /\ UNCHANGED <<sessions, issued, now, invoked>>

\* the agent calls query_outlets_table, which awaits the translator (line 181)
AgentStartsQuery(t, nl_query) ==
    /\ turns[t].pc = "running"
    /\ "query_outlets_table" \in tools_of(turns[t].kind)
    /\ turns[t].calls < MaxCalls
    /\ nl_query \notin turns[t].pending
    /\ turns' = [turns EXCEPT ![t].calls = @ + 1,
                              ![t].started = Append(@, "query_outlets_table"),
                              ![t].pending = @ \cup {nl_query}]
    /\ last' = [op |-> "none"]
    /\ UNCHANGED <<sessions, issued, now, tool_calls_metadata, invoked>>

\* the translator answers and query_outlets_table runs to its return
AgentQueryReturns(t, nl_query, tr, db) ==
    /\ turns[t].pc = "running"
    /\ nl_query \in turns[t].pending
    /\ LET out == query_outlets_table(nl_query, tr, db)
       IN  /\ tool_calls_metadata' = tool_calls_metadata \o out.appended
           /\ IF out.raised
              THEN fail_turn(t, turns[t].own)
              ELSE turns' = [turns EXCEPT ![t].pending = @ \ {nl_query},
                                          ![t].own = @ \o out.appended]
    /\ last' = [op |-> "none"]
    /\ UNCHANGED <<sessions, issued, now, invoked>>

\* agent.run returns: get_and_clear_tool_metadata, the return of chat /
\* product_chat / outlet_chat (agent_run.py lines 190-193) and, under the
\* router, update_session_history and the response (router.py lines 47-55)
AgentReturns(t) ==
    /\ turns[t].pc = "running"
    /\ turns[t].pending = {}
    /\ LET r == turns[t]
           updated_history == all_messages(r.message_history, r.message)
       IN  /\ turns' = [turns EXCEPT ![t] =
                  ended(r, "success",
                        get_and_clear_tool_metadata_ret(tool_calls_metadata),
                        updated_history)]
           /\ sessions' = IF r.via = "router"
                          THEN update_session_history(sessions, r.session_id,
                                                      updated_history)
                          ELSE sessions
    /\ tool_calls_metadata' = get_and_clear_tool_metadata(tool_calls_metadata)
    /\ last' = [op |-> "none"]
    /\ UNCHANGED <<issued, now, invoked>>

\* the inference backend fails: agent.run raises (agent_run.py lines 195-197)
AgentRaises(t) ==
    /\ turns[t].pc = "running"
    /\ fail_turn(t, turns[t].own)
    /\ last' = [op |-> "none"]
    /\ UNCHANGED <<sessions, issued, now, tool_calls_metadata, invoked>>

\* what the agents are seen to do while a turn runs: a retrieval that succeeds
\* or finds its backend down, and an outlet query that is executed
AgentCalls == {c \in ToolCalls : c.tool = "get_similar_products"}
AgentTranslations ==
    {tr \in TranslatorOutcomes :
        ~tr.raised /\ tr.data = <<"S","E","L","E","C","T"," ","*">>}

AgentSteps(t) ==
    \/ \E call \in AgentCalls, backend \in Backends : AgentCallsTool(t, call, backend)
    \/ \E nl \in NlQueries : AgentStartsQuery(t, nl)
    \/ \E nl \in NlQueries, tr \in AgentTranslations :
          AgentQueryReturns(t, nl, tr, DbIdle)
    \/ AgentReturns(t)
    \/ AgentRaises(t)

\* the session identifier of a request: none, or one the client was given
Requests == {{}} \cup {{id} : id \in issued}

\* the server: requests through the router, and the clock
Next ==
    \/ \E d \in TickSteps : Tick(d)
    \/ \E t \in TurnIds, req \in Requests, m \in Messages : ChatBeginNew(t, req, m)
    \/ \E t \in TurnIds, id \in SessionIds, m \in Messages : ChatBeginExisting(t, id, m)
    \/ \E t \in TurnIds, kind \in Kinds, m \in Messages : QueryBegin(t, kind, m)
    \/ \E t \in TurnIds : AgentSteps(t)

Spec == Init /\ [][Next]_vars

\* one ChatAgent used by several callers at once, without the router
NextAgent ==
    \/ \E t \in TurnIds, kind \in Kinds, m \in Messages : DirectBegin(t, kind, m)
    \/ \E t \in TurnIds : AgentSteps(t)

SpecAgent == Init /\ [][NextAgent]_vars

\* ---------------------------------------------------------- /chat-stream
\* the most items one stream's generator is seen to yield
MaxItems == 2

\* the texts of the chunks: the empty text and a word
ChunkTexts == {<<>>, <<"H", "i">>}

\* what chat_service.chat_stream(message, message_history) may yield, as
\* generate_stream reads it: a dict with the key 'chunk', a dict with the keys
\* 'response', 'message_history' and 'tool_calls', or a dict with neither
StreamItems(message_history, message) ==
    {[key |-> "chunk", chunk |-> c] : c \in ChunkTexts}
    \cup {[key |-> "response", response |-> <<"H", "i">>,
           message_history |-> all_messages(message_history, message),
           tool_calls |-> <<>>]}
    \cup {[key |-> "other"]}

\* ChatStreamChunk(...) written as one "data: {json}" line of the stream
ChatStreamChunk(chunk, response, session_id, message_history, status, tool_calls) ==
    [data |-> "json", chunk |-> chunk, response |-> response,
     session_id |-> session_id, message_history |-> message_history,
     status |-> status, tool_calls |-> tool_calls]

\* the line "data: [DONE]"
DONE == [data |-> "[DONE]"]

\* f"Error: {str(e)}"
ErrorChunk(e) == <<"E", "r", "r", "o", "r", ":", " ">> \o e

\* (mutant) the chunk is tested for truth, not for presence: an empty chunk
\* is passed over
generate_stream_item_truthy(r, item) ==
    CASE item.key = "chunk" /\ item.chunk # <<>> ->
            [r EXCEPT !.items = Append(@, item),
                      !.events = Append(@, ChatStreamChunk(item.chunk, None,
                                     r.session_id, None, "streaming", None))]
      [] item.key = "response" ->
            [r EXCEPT !.items = Append(@, item),
                      !.updated_history = item.message_history,
                      !.events = Append(@, ChatStreamChunk(None, item.response,
                                     r.session_id, item.message_history,
                                     "complete", item.tool_calls))]
      [] OTHER -> [r EXCEPT !.items = Append(@, item)]

\* (mutant) the final text is passed as chunk, not as response
generate_stream_item_misfiled(r, item) ==
    CASE item.key = "chunk" ->
            [r EXCEPT !.items = Append(@, item),
                      !.events = Append(@, ChatStreamChunk(item.chunk, None,
                                     r.session_id, None, "streaming", None))]
      [] item.key = "response" ->
            [r EXCEPT !.items = Append(@, item),
                      !.updated_history = item.message_history,
                      !.events = Append(@, ChatStreamChunk(item.response, None,
                                     r.session_id, item.message_history,
                                     "complete", item.tool_calls))]
      [] OTHER -> [r EXCEPT !.items = Append(@, item)]

\* the body of `async for item in ...` (router.py lines 199-221): the stream's
\* record after one item; items is the list of the items yielded so far
generate_stream_item(r, item) ==
    CASE item.key = "chunk" ->
            [r EXCEPT !.items = Append(@, item),
                      !.events = Append(@, ChatStreamChunk(item.chunk, None,
                                     r.session_id, None, "streaming", None))]
      [] item.key = "response" ->
            [r EXCEPT !.items = Append(@, item),
                      !.updated_history = item.message_history,
                      !.events = Append(@, ChatStreamChunk(None, item.response,
                                     r.session_id, item.message_history,
                                     "complete", item.tool_calls))]
      [] OTHER -> [r EXCEPT !.items = Append(@, item)]

\* (mutant) the except branch sends the error chunk and stops
error_events_unterminated(r, e) ==
    <<ChatStreamChunk(ErrorChunk(e), None, r.session_id, None, "error", None)>>

\* the lines the except branch sends (router.py lines 236-242)
error_events(r, e) ==
    <<ChatStreamChunk(ErrorChunk(e), None, r.session_id, None, "error", None),
      DONE>>

\* `if updated_history is not None: session_manager.update_session_history(
\* session_id, updated_history)` (router.py lines 224-226, 233-234)
store_updated_history(S, r) ==
    IF r.updated_history # None
    THEN update_session_history(S, r.session_id, r.updated_history)
    ELSE S

\* generate_stream() before its first item: updated_history = None
begin_stream(t, message, session_id, message_history) ==
    turns' = [turns EXCEPT ![t] =
        [pc |-> "streaming", via |-> "router", kind |-> "stream",
         message |-> message, session_id |-> session_id,
         message_history |-> message_history, updated_history |-> None,
         items |-> <<>>, events |-> <<>>,
         swept |-> expired_sessions(sessions, now)]]

\* POST /chat-stream (router.py lines 175-193): sweep, then create a session
\* when the request names none that exists
StreamBeginNew(t, req, message) ==
    /\ turns[t].pc = "idle"
    /\ req = {} \/ \A id \in req : ~session_exists(cleanup_old_sessions(sessions, now), id)
    /\ \E id \in uuid4(issued) :
          /\ sessions' = create_session(cleanup_old_sessions(sessions, now), id, now)
          /\ issued' = issued \cup {id}
          /\ begin_stream(t, message, id, None)
    /\ last' = [op |-> "chat-stream", req |-> req]
    /\ UNCHANGED <<now, tool_calls_metadata, invoked>>

\* the same, when the request's session exists after the sweep
StreamBeginExisting(t, id, message) ==
    /\ turns[t].pc = "idle"
    /\ session_exists(cleanup_old_sessions(sessions, now), id)
    /\ Len(get_session_history(sessions, id)) < MaxHist
    /\ sessions' = update_session_activity(cleanup_old_sessions(sessions, now), id, now)
    /\ begin_stream(t, message, id,
                    get_session_history(cleanup_old_sessions(sessions, now), id))
    /\ last' = [op |-> "chat-stream", req |-> {id}]
    /\ UNCHANGED <<issued, now, tool_calls_metadata, invoked>>

\* the generator yields an item and generate_stream handles it
GeneratorYields(t, item) ==
    /\ turns[t].pc = "streaming"
    /\ Len(turns[t].items) < MaxItems
    /\ item \in StreamItems(turns[t].message_history, turns[t].message)
    /\ turns' = [turns EXCEPT ![t] = generate_stream_item(turns[t], item)]
    /\ last' = [op |-> "none"]
    /\ UNCHANGED <<sessions, issued, now, tool_calls_metadata, invoked>>

\* the generator is exhausted (router.py lines 223-229): the history of the
\* last 'response' item, if any, is stored, then the end marker is sent
GeneratorEnds(t) ==
    /\ turns[t].pc = "streaming"
    /\ LET r == turns[t]
       IN  /\ sessions' = store_updated_history(sessions, r)
           /\ turns' = [turns EXCEPT ![t] =
                  [r EXCEPT !.pc = "done", !.events = Append(@, DONE)]]
    /\ last' = [op |-> "none"]
    /\ UNCHANGED <<issued, now, tool_calls_metadata, invoked>>

\* the generator raises (router.py lines 231-242): the history is stored if
\* there is one, then an error chunk and the end marker are sent
GeneratorRaises(t, e) ==
    /\ turns[t].pc = "streaming"
    /\ LET r == turns[t]
       IN  /\ sessions' = store_updated_history(sessions, r)
           /\ turns' = [turns EXCEPT ![t] =
                  [r EXCEPT !.pc = "done", !.events = @ \o error_events(r, e)]]
    /\ last' = [op |-> "raise"]
    /\ UNCHANGED <<issued, now, tool_calls_metadata, invoked>>

\* the caller stops reading after an event it was sent: the response is
\* cancelled while generate_stream is suspended at a yield.  What is raised
\* there (CancelledError, GeneratorExit) is no Exception, so neither the except
\* branch nor the code after the loop runs
ConsumerStops(t) ==
    /\ turns[t].pc = "streaming"
    /\ turns[t].events # <<>>
    /\ turns' = [turns EXCEPT ![t].pc = "closed"]
    /\ last' = [op |-> "none"]
    /\ UNCHANGED <<sessions, issued, now, tool_calls_metadata, invoked>>

StreamSteps(t) ==
    \/ /\ turns[t].pc = "streaming"
       /\ \E item \in StreamItems(turns[t].message_history, turns[t].message) :
             GeneratorYields(t, item)
    \/ GeneratorEnds(t)
    \/ \E e \in ExceptionTexts : GeneratorRaises(t, e)
    \/ ConsumerStops(t)

\* the server answering /chat and /chat-stream, the agents calling no tools
NextStream ==
    \/ \E d \in TickSteps : Tick(d)
    \/ \E t \in TurnIds, req \in Requests, m \in Messages : ChatBeginNew(t, req, m)
    \/ \E t \in TurnIds, id \in SessionIds, m \in Messages : ChatBeginExisting(t, id, m)
    \/ \E t \in TurnIds, req \in Requests, m \in Messages : StreamBeginNew(t, req, m)
    \/ \E t \in TurnIds, id \in SessionIds, m \in Messages : StreamBeginExisting(t, id, m)
    \/ \E t \in TurnIds : AgentReturns(t)
    \/ \E t \in TurnIds : AgentRaises(t)
    \/ \E t \in TurnIds : StreamSteps(t)

SpecStream == Init /\ [][NextStream]_vars

\* ------------------------------------------- one request after another
\* a client that waits for each answer before it sends its next request, as
\* the tests of the endpoints do (test_api_endpoints.py): no other request is
\* being served, and the request takes the first slot
OneAtATime(t) == \A u \in TurnIds \ {t} : turns[u].pc = "idle" /\ t < u

\* the answer has been read; the next request can follow
NextRequest(t) ==
    /\ turns[t].pc \in {"done", "closed", "rejected"}
    /\ turns' = [turns EXCEPT ![t] = IdleTurn]
    /\ last' = [op |-> "none"]
    /\ UNCHANGED <<sessions, issued, now, tool_calls_metadata, invoked>>

\* requests that open a conversation: they carry no identifier, or one the
\* store does not hold after the sweep
NextSerial ==
    \/ \E d \in TickSteps : Tick(d)
    \/ \E t \in TurnIds, req \in Requests, m \in Messages :
          OneAtATime(t) /\ ChatBeginNew(t, req, m)
    \/ \E t \in TurnIds, req \in Requests, m \in Messages :
          OneAtATime(t) /\ StreamBeginNew(t, req, m)
    \/ \E t \in TurnIds : AgentReturns(t)
    \/ \E t \in TurnIds : AgentRaises(t)
    \/ \E t \in TurnIds : StreamSteps(t)
    \/ \E t \in TurnIds : NextRequest(t)

SpecSerial == Init /\ [][NextSerial]_vars

\* ------------------------------------------------- ProductDatabase
\* self.vector_dimension = 512 (database.py line 27)
vector_dimension == 512

\* a query embedding, as search_similar_products reads it: its length, and
\* the vector handed on to the storage engine
Embeddings == {[len |-> n, vector |-> "v"] : n \in {0, 511, 512, 513}}

\* limit and threshold as callers pass them (similarities in hundredths)
Limits == {1, 10}
Thresholds == {50, 80}

\* the product rows with their similarity to the query, in the order of
\* their cosine distance to it
ProductRows ==
    <<[id |-> 1, chunk |-> "mug", similarity |-> 90],
      [id |-> 2, chunk |-> "cup", similarity |-> 60],
      [id |-> 3, chunk |-> "lid", similarity |-> 30]>>

\* the similarity query (database.py lines 72-80): filter, order_by, limit
similarity_query(limit, threshold) ==
    LET AtLeast(r) == r.similarity >= threshold
        rows == SelectSeq(ProductRows, AtLeast)
    IN  SubSeq(rows, 1, IF Len(rows) < limit THEN Len(rows) ELSE limit)

\* (mutant) the length is compared after the storage engine has answered
search_similar_products_late(query_embedding, limit, threshold, backend) ==
    IF backend = "unavailable"
    THEN [raised |-> TRUE, exc |-> <<"OperationalError">>, ret |-> None,
          queries |-> <<"similarity">>, closed |-> TRUE]
    ELSE IF query_embedding.len # vector_dimension
    THEN [raised |-> TRUE,
          exc |-> <<"ValueError", query_embedding.len, vector_dimension>>,
          ret |-> None, queries |-> <<"similarity">>, closed |-> TRUE]
    ELSE [raised |-> FALSE, exc |-> <<>>,
          ret |-> similarity_query(limit, threshold),
          queries |-> <<"similarity">>, closed |-> TRUE]

\* search_similar_products (database.py lines 53-88): the session is made,
\* the length is compared with vector_dimension and a ValueError raised, else
\* the query runs; every exception is logged and raised again, and the
\* session is closed on every path.  queries: the queries sent to the
\* storage engine.
search_similar_products(query_embedding, limit, threshold, backend) ==
    IF query_embedding.len # vector_dimension
    THEN [raised |-> TRUE,
          exc |-> <<"ValueError", query_embedding.len, vector_dimension>>,
          ret |-> None, queries |-> <<>>, closed |-> TRUE]
    ELSE IF backend = "unavailable"
    THEN [raised |-> TRUE, exc |-> <<"OperationalError">>, ret |-> None,
          queries |-> <<"similarity">>, closed |-> TRUE]
    ELSE [raised |-> FALSE, exc |-> <<>>,
          ret |-> similarity_query(limit, threshold),
          queries |-> <<"similarity">>, closed |-> TRUE]

\* db.search_similar_products(query_embedding, limit, threshold), as its
\* caller sees it
SearchSimilarProducts(query_embedding, limit, threshold, backend) ==
    /\ Len(invoked) < MaxCalls
    /\ invoked' = Append(invoked,
          [op |-> "search_similar_products",
           query_embedding |-> query_embedding,
           limit |-> limit, threshold |-> threshold,
           out |-> search_similar_products(query_embedding, limit,
                                           threshold, backend)])
    /\ last' = [op |-> "search_similar_products"]
    /\ UNCHANGED <<sessions, issued, now, tool_calls_metadata, turns>>

\* a ProductDatabase searched by its callers
NextSearch ==
    \E e \in Embeddings, limit \in Limits, threshold \in Thresholds,
       backend \in Backends :
          SearchSimilarProducts(e, limit, threshold, backend)

SpecSearch == Init /\ [][NextSearch]_vars

\* ------------------------------------------- one agent, turn after turn
\* agent.chat(...) called directly, one call at a time, the agent calling its
\* tools, several of one turn at once (pydantic_ai runs the tool calls of one
\* model response concurrently)
NextOrder ==
    \/ \E t \in TurnIds, m \in Messages :
          OneAtATime(t) /\ DirectBegin(t, "chat", m)
    \/ \E t \in TurnIds, call \in ToolCalls, backend \in Backends :
          AgentCallsTool(t, call, backend)
    \/ \E t \in TurnIds, nl \in NlQueries : AgentStartsQuery(t, nl)
    \/ \E t \in TurnIds, nl \in NlQueries, tr \in AgentTranslations :
          AgentQueryReturns(t, nl, tr, DbIdle)
    \/ \E t \in TurnIds : AgentReturns(t)
    \/ \E t \in TurnIds : AgentRaises(t)
    \/ \E t \in TurnIds : NextRequest(t)

SpecOrder == Init /\ [][NextOrder]_vars

\* --------------------------------------------- turns one after another
\* no call of chat, product_chat or outlet_chat is awaiting its agent, and
\* the calls made so far are the turns before t
NoneInFlight(t) ==
    \A u \in TurnIds \ {t} :
        IF u < t THEN turns[u].pc = "done" ELSE turns[u].pc = "idle"

\* one ChatAgent whose entry points are called one after another, each call
\* awaited (and its outcome kept by the caller) before the next is made
NextSequence ==
    \/ \E t \in TurnIds, kind \in Kinds, m \in Messages :
          NoneInFlight(t) /\ DirectBegin(t, kind, m)
    \/ \E t \in TurnIds : AgentSteps(t)

SpecSequence == Init /\ [][NextSequence]_vars

\* ------------------------------------------------------ the event loop
\* the handlers, the agents and query_outlets_table are coroutines of one
\* event loop: between two awaits a coroutine has the loop's thread to itself

\* the translator answers and query_outlets_table calls
\* self.database.execute_query(sql_query) (agent_tools.py line 190), a plain
\* call of a synchronous method (database.py lines 238-274): the loop's thread
\* is inside it until the storage engine answers
QueryExecutes(t, nl_query) ==
    /\ turns[t].pc = "running"
    /\ nl_query \in turns[t].pending
    /\ turns' = [turns EXCEPT ![t].pc = "executing",
                              ![t].executing = {nl_query}]
    /\ last' = [op |-> "none"]
    /\ UNCHANGED <<sessions, issued, now, tool_calls_metadata, invoked>>

\* the storage engine answers and query_outlets_table runs to its return
StorageAnswers(t, tr, db) ==
    /\ turns[t].pc = "executing"
    /\ \E nl_query \in turns[t].executing :
          LET out == query_outlets_table(nl_query, tr, db)
          IN  /\ tool_calls_metadata' = tool_calls_metadata \o out.appended
              /\ turns' = [turns EXCEPT ![t].pc = "running",
                                        ![t].pending = @ \ {nl_query},
                                        ![t].executing = {},
                                        ![t].own = @ \o out.appended]
    /\ last' = [op |-> "none"]
    /\ UNCHANGED <<sessions, issued, now, invoked>>

\* the loop's thread is inside a synchronous call
EventLoopBlocked == \E t \in TurnIds : turns[t].pc = "executing"

\* what the loop can run when its thread is free
LoopBegins(t) ==
    /\ ~EventLoopBlocked
    /\ \E m \in Messages : ChatBeginNew(t, {}, m)

LoopStartsQuery(t) ==
    /\ ~EventLoopBlocked
    /\ \E nl \in NlQueries : AgentStartsQuery(t, nl)

LoopExecutesQuery(t) ==
    /\ ~EventLoopBlocked
    /\ \E nl \in NlQueries : QueryExecutes(t, nl)

LoopReturns(t) ==
    /\ ~EventLoopBlocked
    /\ AgentReturns(t)

LoopRaises(t) ==
    /\ ~EventLoopBlocked
    /\ AgentRaises(t)

\* /chat turns whose agent queries the outlets table, on one event loop
NextLoop ==
    \/ \E t \in TurnIds : LoopBegins(t)
    \/ \E t \in TurnIds : LoopStartsQuery(t)
    \/ \E t \in TurnIds : LoopExecutesQuery(t)
    \/ \E t \in TurnIds, tr \in AgentTranslations : StorageAnswers(t, tr, DbIdle)
    \/ \E t \in TurnIds : LoopReturns(t)
    \/ \E t \in TurnIds : LoopRaises(t)
    \/ \E t \in TurnIds : NextRequest(t)

SpecLoop == Init /\ [][NextLoop]_vars

\* ------------------------------------------------ faults, by endpoint
\* /chat, /products, /outlets and /chat-stream, one request after another,
\* each failing or not
NextFaults ==
    \/ \E d \in TickSteps : Tick(d)
    \/ \E t \in TurnIds, req \in Requests, m \in Messages :
          OneAtATime(t) /\ ChatBeginNew(t, req, m)
    \/ \E t \in TurnIds, kind \in {"products", "outlets"}, m \in Messages :
          OneAtATime(t) /\ QueryBegin(t, kind, m)
    \/ \E t \in TurnIds, req \in Requests, m \in Messages :
          OneAtATime(t) /\ StreamBeginNew(t, req, m)
    \/ \E t \in TurnIds : AgentReturns(t)
    \/ \E t \in TurnIds : AgentRaises(t)
    \/ \E t \in TurnIds : StreamSteps(t)
    \/ \E t \in TurnIds : NextRequest(t)

SpecFaults == Init /\ [][NextFaults]_vars

\* ------------------------------------------------ conversations resumed
\* /chat requests one after another, opening conversations and continuing
\* them, the clock moving between them
NextResume ==
    \/ \E d \in TickSteps : Tick(d)
    \/ \E t \in TurnIds, req \in Requests, m \in Messages :
          OneAtATime(t) /\ ChatBeginNew(t, req, m)
    \/ \E t \in TurnIds, id \in SessionIds, m \in Messages :
          OneAtATime(t) /\ ChatBeginExisting(t, id, m)
    \/ \E t \in TurnIds : AgentReturns(t)
    \/ \E t \in TurnIds : AgentRaises(t)
    \/ \E t \in TurnIds : NextRequest(t)

SpecResume == Init /\ [][NextResume]_vars

\* ------------------------------------------------------ empty messages
\* messages that are empty once trimmed
BlankMessages == {<<>>, <<" ">>, <<"\n", " ", "\t">>}

\* "Message cannot be empty"
EmptyMessageDetail ==
    <<"M", "e", "s", "s", "a", "g", "e", " ", "c", "a", "n", "n", "o", "t",
      " ", "b", "e", " ", "e", "m", "p", "t", "y">>

\* `if not request.message.strip(): raise HTTPException(status_code=400, ...)`
\* is the first statement of the handlers' try block (router.py lines 23-25,
\* 175-177); the `except Exception` of the same try (lines 57-62, 254-259)
\* catches the HTTPException, an Exception like any other, and raises the
\* HTTP 500 with the fixed sentence in its place
empty_message_outcome(endpoint) ==
    LET raised == HTTPException(400, EmptyMessageDetail)
    IN  router_exception("chat", raised.detail)

\* POST /chat or /chat-stream with a message that is empty once trimmed
EmptyMessage(t, endpoint, req, message) ==
    /\ turns[t].pc = "idle"
    /\ strip(message) = <<>>
    /\ turns' = [turns EXCEPT ![t] =
          [pc |-> "rejected", via |-> "router", kind |-> endpoint,
           message |-> message, fault |-> empty_message_outcome(endpoint)]]
    /\ last' = [op |-> "rejected", req |-> req]
    /\ UNCHANGED <<sessions, issued, now, tool_calls_metadata, invoked>>

\* the four endpoints, one request after another, blank messages among them
NextReject ==
    \/ NextFaults
    \/ \E t \in TurnIds, endpoint \in {"chat", "stream"}, req \in Requests,
          m \in BlankMessages :
              OneAtATime(t) /\ EmptyMessage(t, endpoint, req, m)

SpecReject == Init /\ [][NextReject]_vars

\* ----------------------------------------- the generator as specified
\* the text of the chunks among the items, joined in order
RECURSIVE accumulated_text(_)
accumulated_text(items) ==
    IF items = <<>> THEN <<>>
    ELSE IF Head(items).key = "chunk"
         THEN Head(items).chunk \o accumulated_text(Tail(items))
         ELSE accumulated_text(Tail(items))

\* ChatAgent.chat_stream as the streaming variant of the inference backend is
\* specified: incremental text, then once the terminal payload (the full
\* accumulated text, the updated history, the tool list), then nothing
chat_stream(r) ==
    IF \E i \in 1..Len(r.items) : r.items[i].key = "response"
    THEN {}
    ELSE {[key |-> "chunk", chunk |-> c] :
             c \in IF Len(r.items) < MaxItems THEN ChunkTexts ELSE {}}
         \cup {[key |-> "response", response |-> accumulated_text(r.items),
                message_history |-> all_messages(r.message_history, r.message),
                tool_calls |-> <<>>]}

\* that generator yields its next item and generate_stream handles it
ChatStreamYields(t, item) ==
    /\ turns[t].pc = "streaming"
    /\ item \in chat_stream(turns[t])
    /\ turns' = [turns EXCEPT ![t] = generate_stream_item(turns[t], item)]
    /\ last' = [op |-> "none"]
    /\ UNCHANGED <<sessions, issued, now, tool_calls_metadata, invoked>>

\* it is exhausted after its terminal payload
ChatStreamEnds(t) ==
    /\ turns[t].pc = "streaming"
    /\ chat_stream(turns[t]) = {}
    /\ GeneratorEnds(t)

\* streams of that generator, one request after another
NextChatStream ==
    \/ \E d \in TickSteps : Tick(d)
    \/ \E t \in TurnIds, req \in Requests, m \in Messages :
          OneAtATime(t) /\ StreamBeginNew(t, req, m)
    \/ \E t \in TurnIds :
          /\ turns[t].pc = "streaming"
          /\ \E item \in chat_stream(turns[t]) : ChatStreamYields(t, item)
    \/ \E t \in TurnIds : ChatStreamEnds(t)
    \/ \E t \in TurnIds, e \in ExceptionTexts : GeneratorRaises(t, e)
    \/ \E t \in TurnIds : ConsumerStops(t)
    \/ \E t \in TurnIds : NextRequest(t)

SpecChatStream == Init /\ [][NextChatStream]_vars

\* ================================================================ claims
\* --- helpers of the statements below
upper(c) ==
    CASE c = "s" -> "S" [] c = "e" -> "E" [] c = "l" -> "L"
      [] c = "c" -> "C" [] c = "t" -> "T" [] OTHER -> c

\* a single statement beginning with SELECT (case-insensitive): nothing but
\* whitespace follows a statement separator
IsSingleSelect(text) ==
    LET s == strip(text)
    IN  /\ Len(s) >= 6
        /\ [i \in 1..6 |-> upper(s[i])] = <<"S","E","L","E","C","T">>
        /\ \A i \in 1..Len(s) :
              s[i] = ";" => \A j \in (i + 1)..Len(s) : s[j] \in Whitespace

IsErrorString(x) ==
    Len(x) = 3 /\ x[1] = "text" /\ x[2] = "Error executing query: "

IsJsonString(x) == Len(x) = 2 /\ x[1] = "json"

\* C1: every tool invocation, whether the underlying operation succeeds or
\* raises, appends exactly one record: after k invocations since the last
\* clear the accumulator holds exactly k records.
C1_OneRecordPerInvocation ==
    Len(tool_calls_metadata) = Len(invoked)

\* C3: Database.execute_query is invoked by query_outlets_table only with a
\* text that is a single statement beginning with SELECT, whatever the
\* translator emits.
C3_OnlySelectReachesStorage ==
    last.op = "query_outlets_table" =>
        \A i \in 1..Len(last.out.queries) : IsSingleSelect(last.out.queries[i])

\* C4: when the translator's output, trimmed, starts with the refusal marker
\* '--', query_outlets_table does not invoke Database.execute_query and
\* returns the fixed refusal string.
C4_RefusalSkipsExecution ==
    (/\ last.op = "query_outlets_table"
     /\ ~last.tr.raised
     /\ startswith(strip(last.tr.data), <<"-", "-">>))
        => /\ last.out.queries = <<>>
           /\ ~last.out.raised
           /\ last.out.ret = RefusalString

\* C4 witness: a refusal preceded by whitespace was answered with the refusal string
C4_Witness ==
    /\ last.op = "query_outlets_table"
    /\ ~last.tr.raised
    /\ last.tr.data = <<" ","\n","-","-"," ","n","o">>
    /\ last.out.ret = RefusalString

\* C5: query_outlets_table never raises: for every outcome of translation and
\* execution it returns the JSON row list, the refusal string or an
\* 'Error executing query: ...' string, and it has appended exactly one record,
\* whose result is the returned string.
C5_QueryOutletsNeverRaises ==
    [][last'.op = "query_outlets_table" =>
        /\ ~last'.out.raised
        /\ \/ IsJsonString(last'.out.ret)
           \/ last'.out.ret = RefusalString
           \/ IsErrorString(last'.out.ret)
        /\ Len(tool_calls_metadata') = Len(tool_calls_metadata) + 1
        /\ SubSeq(tool_calls_metadata', 1, Len(tool_calls_metadata)) = tool_calls_metadata
        /\ tool_calls_metadata'[Len(tool_calls_metadata')].result = last'.out.ret
        /\ tool_calls_metadata'[Len(tool_calls_metadata')].tool_name = "query_outlets_table"
      ]_vars

\* C5 witness: an execution fault was returned as an error string, after an
\* earlier record
C5_Witness ==
    /\ last.op = "query_outlets_table"
    /\ DbConsulted(last.tr)
    /\ last.db.raised
    /\ last.out.ret = ErrorString("database")
    /\ Len(tool_calls_metadata) = 2
    /\ tool_calls_metadata[2].result = ErrorString("database")

\* C6: when the operation underlying an instrumented tool raises, the exception
\* does not pass the tool boundary: the tool returns an error string, which is
\* the result of the one record it appends.
C6_ToolFaultBecomesResult ==
    [][(last'.op = "tool" /\ tool_body(last'.call, last'.backend).raised) =>
        /\ ~last'.out.raised
        /\ Len(tool_calls_metadata') = Len(tool_calls_metadata) + 1
        /\ tool_calls_metadata'[Len(tool_calls_metadata')].result = last'.out.ret
      ]_vars

\* C7: after N sequential tool invocations following a clear,
\* get_and_clear_tool_metadata returns exactly N records in invocation order,
\* each with the tool's name and result; afterwards the accumulator is empty.
C7_DrainReturnsEveryInvocation ==
    last.op = "get_and_clear_tool_metadata" =>
        /\ Len(last.ret) = Len(last.invoked)
        /\ \A i \in 1..Len(last.invoked) :
              i <= Len(last.ret) => last.ret[i].tool_name = last.invoked[i].tool_name
        /\ tool_calls_metadata = <<>>

\* C8: create_session returns an identifier that was not in the store before;
\* right afterwards session_exists(id) holds, get_session_history(id) is
\* empty, and every session that existed before is unchanged.
C8_CreateSessionFresh ==
    [][last'.op = "create_session" =>
        /\ last'.ret \notin DOMAIN sessions
        /\ session_exists(sessions', last'.ret)
        /\ get_session_history(sessions', last'.ret) = <<>>
        /\ \A x \in DOMAIN sessions :
              x \in DOMAIN sessions' /\ sessions'[x] = sessions[x]
      ]_vars

\* C8 witness: a session was created beside an older one that holds a history
C8_Witness ==
    /\ last.op = "create_session"
    /\ \E x \in DOMAIN sessions :
          /\ x # last.ret
          /\ sessions[x].message_history # <<>>
          /\ sessions[x].created_at < sessions[last.ret].created_at

\* C9: for an existing session, update_session_history(id, h) followed by
\* get_session_history(id) returns exactly h whatever was stored before, and
\* the histories of all other sessions are unchanged.
C9_UpdateThenGet ==
    [][(last'.op = "update_session_history" /\ last'.id \in DOMAIN sessions) =>
        /\ get_session_history(sessions', last'.id) = last'.h
        /\ DOMAIN sessions' = DOMAIN sessions
        /\ \A x \in DOMAIN sessions \ {last'.id} :
              get_session_history(sessions', x) = get_session_history(sessions, x)
      ]_vars

\* C9 witness: a non-empty history was replaced by a different non-empty one
\* while another session exists
C9_Witness ==
    /\ last.op = "update_session_history"
    /\ last.ret
    /\ last.before # <<>>
    /\ last.h # <<>>
    /\ last.h # last.before
    /\ get_session_history(sessions, last.id) = last.h
    /\ Cardinality(DOMAIN sessions) >= 2

\* C2: for two turns running concurrently on one ChatAgent, under every
\* interleaving of their suspension points, the tool list a turn returns holds
\* exactly the records of the tools that turn invoked.
C2_TurnScopedToolList ==
    \A t \in TurnIds :
        (turns[t].pc = "done" /\ turns[t].status = "success")
            => turns[t].tool_calls = turns[t].own

\* C10: when a /chat turn completes successfully, the history stored for the
\* turn's session is the updated history the agent returned, under the session
\* identifier of the response; and the agent was given the history stored for
\* that session at turn start, or none for a new session.
C10_ChatCommitsHistory ==
    [][\A t \in TurnIds :
        /\ (/\ turns[t].pc = "idle"
            /\ turns'[t].pc = "running"
            /\ turns'[t].kind = "chat")
              => turns'[t].message_history =
                    IF turns'[t].session_id \in DOMAIN sessions
                    THEN sessions[turns'[t].session_id].message_history
                    ELSE None
        /\ (/\ turns[t].pc = "running"
            /\ turns'[t].pc = "done"
            /\ turns'[t].kind = "chat"
            /\ turns'[t].status = "success")
              => get_session_history(sessions', turns'[t].session_id)
                    = turns'[t].updated_history
      ]_vars

\* C12: cleanup_old_sessions removes exactly the sessions whose last activity
\* lies further back than the configured timeout at the moment of the call,
\* returns the number of sessions it removed, and leaves every other session
\* (identifier, history and both timestamps) unchanged.
C12_CleanupRemovesExactlyExpired ==
    [][last'.op = "cleanup_old_sessions" =>
        /\ DOMAIN sessions' =
              {x \in DOMAIN sessions :
                  now - sessions[x].last_activity <= SessionTimeoutHours}
        /\ last'.ret = Cardinality(DOMAIN sessions \ DOMAIN sessions')
        /\ \A x \in DOMAIN sessions' : sessions'[x] = sessions[x]
      ]_vars

\* C12 witness: a sweep removed one session and kept another that holds a
\* history
C12_Witness ==
    /\ last.op = "cleanup_old_sessions"
    /\ last.ret = 1
    /\ \E x \in DOMAIN sessions : sessions[x].message_history # <<>>

\* C17: update_session_history and update_session_activity on an identifier
\* not in the store return false and change no session; get_session_history
\* returns absent (None) and session_exists returns false for it.
C17_AbsentSessionIsNoError ==
    [][(/\ last'.op \in {"update_session_history", "update_session_activity",
                         "get_session_history", "session_exists"}
        /\ last'.id \notin DOMAIN sessions) =>
        /\ sessions' = sessions
        /\ last'.op \in {"update_session_history", "update_session_activity",
                         "session_exists"} => last'.ret = FALSE
        /\ last'.op = "get_session_history" => last'.ret = None
      ]_vars

\* C17 witness: the activity of a session that a sweep has removed was
\* updated while another session is stored; the store holds that one only
C17_Witness ==
    /\ last.op = "update_session_activity"
    /\ last.id \in issued
    /\ last.id \notin DOMAIN sessions
    /\ ~last.ret
    /\ sessions # <<>>

\* C18: update_session_history on an existing session changes only that
\* session's history (both timestamps stay); update_session_activity on an
\* existing session changes only that session's last activity, which becomes
\* the current time (history and creation time stay); every other session is
\* unchanged by either.
C18_UpdatesChangeOneField ==
    [][(/\ last'.op \in {"update_session_history", "update_session_activity"}
        /\ last'.id \in DOMAIN sessions) =>
        /\ DOMAIN sessions' = DOMAIN sessions
        /\ \A x \in DOMAIN sessions \ {last'.id} : sessions'[x] = sessions[x]
        /\ sessions'[last'.id].created_at = sessions[last'.id].created_at
        /\ last'.op = "update_session_history" =>
              /\ sessions'[last'.id].message_history = last'.h
              /\ sessions'[last'.id].last_activity = sessions[last'.id].last_activity
        /\ last'.op = "update_session_activity" =>
              /\ sessions'[last'.id].last_activity = now
              /\ sessions'[last'.id].message_history = sessions[last'.id].message_history
      ]_vars

\* C18 witness: a session created earlier, holding a history, was touched
\* while another session exists
C18_Witness ==
    /\ last.op = "update_session_activity"
    /\ last.ret
    /\ sessions[last.id].created_at < sessions[last.id].last_activity
    /\ sessions[last.id].last_activity = now
    /\ sessions[last.id].message_history # <<>>
    /\ Cardinality(DOMAIN sessions) >= 2

\* C13: a sweep with timeout 0 removes every session regardless of recency,
\* including a session whose last activity equals the current time at the
\* sweep; a sweep with a timeout longer than any idle time removes none.
C13_SweepExtremes ==
    [][last'.op = "cleanup_old_sessions" =>
        /\ last'.session_timeout_hours = 0 => DOMAIN sessions' = {}
        /\ last'.session_timeout_hours > MaxTime => sessions' = sessions
      ]_vars

\* --- helpers of the turn-level statements
\* a turn the router has begun and not yet answered
InFlight(r) == r.pc \in {"running", "streaming"} /\ r.via = "router"

\* a turn answered with success: a /chat response with status success, or a
\* stream whose 'complete' event has been sent
Answered(r) ==
    /\ r.pc = "done"
    /\ r.via = "router"
    /\ IF r.kind = "stream" THEN r.updated_history # None
                            ELSE r.status = "success"

\* C11 as claimed: when generation fails during a turn, the caller receives a
\* single error outcome and the history of every session that existed before
\* the turn is identical to its value before the turn (the turn has removed
\* none and changed none).
C11_FailedTurnKeepsEveryHistory ==
    [][\A t \in TurnIds :
        (/\ turns[t].pc = "running"
         /\ turns[t].via = "router"
         /\ turns'[t].pc = "done"
         /\ turns'[t].status = "error")
          => /\ turns'[t].swept = {}
             /\ \A x \in DOMAIN sessions :
                   get_session_history(sessions', x) = sessions[x].message_history
      ]_vars

\* C11 as amended: when generation fails during a turn, the caller receives a
\* single error outcome (no text, no history, no tool list), and the history of
\* every session that existed before the turn and had not timed out when the
\* turn began is identical to its value before the turn: neither the turn's
\* opening (sweep, create or touch) nor its failure changes it.
C11_FailedTurnKeepsLiveHistories ==
    [][\A t \in TurnIds :
        /\ (/\ turns[t].pc = "idle"
            /\ turns'[t].pc = "running"
            /\ turns'[t].via = "router")
              => \A x \in DOMAIN sessions :
                    now - sessions[x].last_activity <= SessionTimeoutHours
                        => get_session_history(sessions', x)
                              = sessions[x].message_history
        /\ (/\ turns[t].pc = "running"
            /\ turns[t].via = "router"
            /\ turns'[t].pc = "done"
            /\ turns'[t].status = "error")
              => /\ turns'[t].updated_history = None
                 /\ turns'[t].tool_calls = <<>>
                 /\ \A x \in DOMAIN sessions :
                       get_session_history(sessions', x) = sessions[x].message_history
      ]_vars

\* C11 witness: a /chat turn on a session that holds a history has failed, the
\* history is still stored, and the turn's sweep had removed nothing
C11_Witness ==
    \E t \in TurnIds :
        /\ turns[t].pc = "done"
        /\ turns[t].via = "router"
        /\ turns[t].status = "error"
        /\ turns[t].message_history # None
        /\ turns[t].message_history # <<>>
        /\ get_session_history(sessions, turns[t].session_id)
              = turns[t].message_history

\* C14: with several turns in flight at once, no sweep (run by any turn)
\* removes a session between the moment a turn has resolved it and the moment
\* that turn commits its updated history, however long the inference takes.
C14_NoSweepUnderTurn ==
    [][\A t \in TurnIds :
        (/\ InFlight(turns[t])
         /\ turns[t].session_id \in DOMAIN sessions)
            => turns[t].session_id \in DOMAIN sessions'
      ]_vars

\* C15: when the history update at the end of a turn returns false (the
\* session no longer exists), the handler creates a fresh session to hold the
\* turn's history, so that the session identifier of the successful /chat or
\* /chat-stream response names a stored session holding the updated history.
C15_FalseUpdateCreatesSession ==
    [][\A t \in TurnIds :
        (/\ InFlight(turns[t])
         /\ Answered(turns'[t])
         /\ ~update_session_history_ret(sessions, turns[t].session_id))
            => /\ turns'[t].session_id \in DOMAIN sessions' \ DOMAIN sessions
               /\ get_session_history(sessions', turns'[t].session_id)
                     = turns'[t].updated_history
      ]_vars

IsSessionEvent(e) ==
    /\ e.data = "json"
    /\ e.session_id \in SessionIds
    /\ e.chunk = None
    /\ e.response = None

IsTextDelta(e) == e.data = "json" /\ e.status = "streaming" /\ e.chunk # None

IsTerminal(e) == e.data = "json" /\ e.status = "complete"

IsErrorEvent(e) == e.data = "json" /\ e.status = "error"

IsChunkItem(item) == item.key = "chunk"

\* the texts of the text-delta events sent, in the order sent
deltas_sent(r) ==
    LET d == SelectSeq(r.events, IsTextDelta)
    IN  [i \in 1..Len(d) |-> d[i].chunk]

\* the texts of the chunks the generator yielded, in the order yielded
chunks_yielded(r) ==
    LET c == SelectSeq(r.items, IsChunkItem)
    IN  [i \in 1..Len(c) |-> c[i].chunk]

\* texts joined in order
RECURSIVE joined(_)
joined(texts) ==
    IF texts = <<>> THEN <<>> ELSE Head(texts) \o joined(Tail(texts))

\* C19: every stream of /chat-stream emits its events in strict order: first a
\* session-identifier event, then zero or more text-delta events, then exactly
\* one terminal event carrying full text, updated history and tool list; no
\* text-delta event follows the terminal event and no second terminal event
\* is emitted, whatever items the generator yields.
C19_StreamEventOrder ==
    \A t \in TurnIds :
        (turns[t].pc \in {"streaming", "done"} /\ turns[t].kind = "stream") =>
            LET ev == turns[t].events
            IN  /\ ev # <<>> => IsSessionEvent(ev[1])
                /\ \A i \in 1..Len(ev) : \A j \in (i + 1)..Len(ev) :
                      IsTerminal(ev[i]) => ~IsTextDelta(ev[j]) /\ ~IsTerminal(ev[j])
                /\ (turns[t].pc = "done" /\ \A i \in 1..Len(ev) : ~IsErrorEvent(ev[i]))
                      => \E i \in 1..Len(ev) : IsTerminal(ev[i])
                /\ \A i \in 1..Len(ev) :
                      IsTerminal(ev[i]) =>
                          /\ ev[i].response # None
                          /\ ev[i].message_history # None
                          /\ ev[i].tool_calls # None

\* C20: the text-delta events of a /chat-stream stream are one per chunk the
\* generator yielded, in the same order: no chunk is lost, duplicated,
\* reordered or merged.
C20_OneDeltaPerChunk ==
    \A t \in TurnIds :
        (turns[t].pc \in {"streaming", "done"} /\ turns[t].kind = "stream") =>
            deltas_sent(turns[t]) = chunks_yielded(turns[t])

\* C20 witness: a stream has ended after two different chunks, the first of
\* them empty, each sent as its own event
C20_Witness ==
    \E t \in TurnIds :
        /\ turns[t].pc = "done"
        /\ turns[t].kind = "stream"
        /\ chunks_yielded(turns[t]) = <<<<>>, <<"H", "i">>>>
        /\ deltas_sent(turns[t]) = <<<<>>, <<"H", "i">>>>

IsEndMarker(e) == e.data = "[DONE]"

\* C22: every stream of /chat-stream consumed to its end finishes with
\* exactly one [DONE] end marker, which is its last event, on the success
\* path and on the error path alike.
C22_OneEndMarkerLast ==
    \A t \in TurnIds :
        (turns[t].pc = "done" /\ turns[t].kind = "stream") =>
            LET ev == turns[t].events
            IN  /\ ev # <<>>
                /\ ev[Len(ev)] = DONE
                /\ Len(SelectSeq(ev, IsEndMarker)) = 1

\* C22 witness: a stream that sent a delta has ended on the error path
C22_Witness ==
    \E t \in TurnIds :
        /\ turns[t].pc = "done"
        /\ turns[t].kind = "stream"
        /\ deltas_sent(turns[t]) # <<>>
        /\ \E i \in 1..Len(turns[t].events) : IsErrorEvent(turns[t].events[i])

\* C23: if the generator raises after text deltas were already sent, the
\* stream still sends one event with status 'error' and then the end marker;
\* the session's stored history is replaced by the updated history if and
\* only if one had been received, and is otherwise unchanged.
C23_RaiseAfterDeltas ==
    [][\A t \in TurnIds :
        (/\ turns[t].pc = "streaming"
         /\ last'.op = "raise"
         /\ turns'[t] # turns[t]
         /\ deltas_sent(turns[t]) # <<>>)
            => LET r  == turns[t]
                   ev == turns'[t].events
                   n  == Len(r.events)
               IN  /\ Len(ev) = n + 2
                   /\ SubSeq(ev, 1, n) = r.events
                   /\ IsErrorEvent(ev[n + 1])
                   /\ ev[n + 2] = DONE
                   /\ get_session_history(sessions', r.session_id) =
                         IF r.updated_history # None
                         THEN r.updated_history
                         ELSE get_session_history(sessions, r.session_id)
      ]_vars

\* C24: for every streaming turn in which a terminal event carrying an
\* updated history has been sent to the caller, the session's stored history
\* comes to equal that updated history, also when the caller stops consuming
\* the stream right after the terminal event: once the stream is over, by its
\* end or by the caller leaving, the store holds the history that was sent.
C24_SentHistoryIsStored ==
    [][\A t \in TurnIds :
        (/\ turns[t].pc = "streaming"
         /\ turns'[t].pc \in {"done", "closed"}
         /\ turns[t].updated_history # None)
            => get_session_history(sessions', turns[t].session_id)
                  = turns[t].updated_history
      ]_vars

\* C25: each orchestration turn (chat, product_chat, outlet_chat) reads and
\* clears the accumulator exactly once, whether generation succeeds or
\* raises, so whenever no turn is in flight the accumulator is empty.
C25_AccumulatorEmptyBetweenTurns ==
    (\A t \in TurnIds : turns[t].pc \in {"idle", "done"})
        => tool_calls_metadata = <<>>

\* the text holds the part as a run of consecutive characters
Contains(text, part) ==
    \E i \in 0..(Len(text) - Len(part)) :
        SubSeq(text, i + 1, i + Len(part)) = part

\* C26: for every fault in /chat, /products, /outlets and /chat-stream, the
\* outcome delivered to the caller has a status field and contains no
\* internal exception message.
C26_FaultsAreStructured ==
    \A t \in TurnIds :
        (turns[t].pc = "done" /\ turns[t].via = "router") =>
            IF turns[t].kind = "stream"
            THEN \A i \in 1..Len(turns[t].events) :
                    IsErrorEvent(turns[t].events[i]) =>
                        /\ "status" \in DOMAIN turns[t].events[i]
                        /\ \A e \in ExceptionTexts :
                              ~Contains(turns[t].events[i].chunk, e)
            ELSE turns[t].status = "error" =>
                    /\ "status" \in DOMAIN turns[t].fault
                    /\ \A e \in ExceptionTexts :
                          ~Contains(turns[t].fault.detail, e)

\* C27: a session's history is read or modified by at most one in-flight
\* turn at a time: when two requests carrying the same session identifier
\* overlap, the exchanges of both turns are in the session's stored history
\* once both have committed, so a stored history holds at least one exchange
\* for every turn answered under its identifier.
C27_NoLostUpdate ==
    \A s \in DOMAIN sessions :
        Cardinality({t \in TurnIds :
                        Answered(turns[t]) /\ turns[t].session_id = s})
            <= Len(sessions[s].message_history)

\* a turn is waiting on a latent operation: the inference backend, the
\* translator, or the storage query of query_outlets_table
WaitsOnLatent(r) == r.pc \in {"running", "executing"}

\* C28: turns of different sessions make progress independently: while one
\* turn is waiting on a latent operation (model inference, embedding
\* generation, or the storage query issued by query_outlets_table), a turn
\* of another session can start, and one that has started can run to its
\* completion.
C28_TurnsProgressIndependently ==
    \A t \in TurnIds : \A u \in TurnIds \ {t} :
        WaitsOnLatent(turns[t]) =>
            /\ (turns[u].pc = "idle" /\ uuid4(issued) # {})
                  => ENABLED LoopBegins(u)
            /\ (turns[u].pc = "running" /\ turns[u].pending = {})
                  => ENABLED LoopReturns(u)

\* the tool names of the records, in order
tool_names(records) == [i \in 1..Len(records) |-> records[i].tool_name]

\* C29: a tool's record is created the instant the tool begins executing, so
\* the records in a turn's returned list are ordered by the time each tool
\* call started, also when several tool calls of one turn run in parallel
\* and complete in a different order.
C29_RecordsInStartOrder ==
    [][\A t \in TurnIds :
        (/\ turns[t].pc = "running"
         /\ turns'[t].pc = "done"
         /\ turns'[t].status = "success")
            => tool_names(turns'[t].tool_calls) = turns[t].started
      ]_vars

\* C30: search_similar_products called with an embedding whose length
\* differs from the vector width 512 fails with a dimension-mismatch error
\* before any storage query is issued and returns no results, partial or
\* otherwise.
C30_DimensionMismatchFailsFirst ==
    \A i \in 1..Len(invoked) :
        (/\ invoked[i].op = "search_similar_products"
         /\ invoked[i].query_embedding.len # 512)
            => /\ invoked[i].out.raised
               /\ invoked[i].out.exc =
                     <<"ValueError", invoked[i].query_embedding.len, 512>>
               /\ invoked[i].out.queries = <<>>
               /\ invoked[i].out.ret = None

\* C30 witness: a search with an embedding of 513 numbers has failed, and one
\* with 512 numbers has returned rows
C30_Witness ==
    /\ \E i \in 1..Len(invoked) :
          /\ invoked[i].op = "search_similar_products"
          /\ invoked[i].query_embedding.len = 513
          /\ invoked[i].out.raised
    /\ \E i \in 1..Len(invoked) :
          /\ invoked[i].op = "search_similar_products"
          /\ invoked[i].query_embedding.len = 512
          /\ ~invoked[i].out.raised
          /\ Len(invoked[i].out.ret) > 0

\* the numbers added from the last to the first
RECURSIVE Total(_)
Total(numbers) ==
    IF Len(numbers) = 0 THEN 0
    ELSE Total(SubSeq(numbers, 1, Len(numbers) - 1)) + numbers[Len(numbers)]

\* the arguments of a call, in the order of the parameters
Arguments(call) == call.args \o [i \in 1..Len(call.kwargs) |-> call.kwargs[i][2]]

\* C31: addition_calculator returns the arithmetic sum of its input sequence
\* for every sequence of integers, 0 for the empty sequence, and
\* multiplication_calculator returns the product of its two arguments; in
\* each case the value returned equals the result stored in the call's record.
C31_CalculatorsCompute ==
    (last.op = "tool" /\ last.call.tool \in {"addition_calculator",
                                            "multiplication_calculator"}) =>
        /\ ~last.out.raised
        /\ last.out.ret =
              IF last.call.tool = "addition_calculator"
              THEN <<"int", Total(Arguments(last.call)[1])>>
              ELSE <<"int", Arguments(last.call)[1] * Arguments(last.call)[2]>>
        /\ (last.call.tool = "addition_calculator"
              /\ Arguments(last.call)[1] = <<>>) => last.out.ret = <<"int", 0>>
        /\ Len(last.out.appended) = 1
        /\ last.out.appended[1].result = last.out.ret
        /\ tool_calls_metadata[Len(tool_calls_metadata)].result = last.out.ret

\* C31 witness: the empty list has been added up, and two negative numbers
\* have been multiplied
C31_Witness ==
    /\ \E i \in 1..Len(invoked) :
          /\ invoked[i].tool_name = "addition_calculator"
          /\ invoked[i].ret = <<"int", 0>>
          /\ invoked[i].appended[1].tool_kwargs = <<<<"numbers", <<>>>>>>
    /\ \E i \in 1..Len(invoked) :
          /\ invoked[i].tool_name = "multiplication_calculator"
          /\ invoked[i].ret = <<"int", 4>>

\* C32: a /chat or /chat-stream request whose message is empty after
\* trimming whitespace is rejected with the 400 'Message cannot be empty'
\* error, and the session store is left unchanged (no sweep, no session
\* created, no timestamp updated).
C32_EmptyMessageIs400 ==
    [][last'.op = "rejected" =>
        /\ sessions' = sessions
        /\ issued' = issued
        /\ \A t \in TurnIds :
              (turns[t].pc = "idle" /\ turns'[t].pc = "rejected") =>
                  /\ turns'[t].fault.status_code = 400
                  /\ turns'[t].fault.detail = EmptyMessageDetail
      ]_vars

\* C33: the sweep runs at the start of every turn before the session is
\* resolved, so no turn resumes a session whose last activity is older than
\* the timeout at turn start: a request presenting such an identifier is
\* given a new session with a different identifier and no prior history, and
\* the old history is never passed to the agent.
C33_TimedOutSessionNotResumed ==
    [][\A t \in TurnIds : \A id \in DOMAIN sessions :
        (/\ turns[t].pc = "idle"
         /\ turns'[t].pc # "idle"
         /\ last'.op \in {"chat", "chat-stream"}
         /\ last'.req = {id}
         /\ now - sessions[id].last_activity > 24)
            => /\ turns'[t].session_id # id
               /\ turns'[t].session_id \notin DOMAIN sessions
               /\ turns'[t].message_history = None
               /\ get_session_history(sessions', turns'[t].session_id) = <<>>
               /\ id \notin DOMAIN sessions'
      ]_vars

\* C33 witness: a request named a session that had been idle for longer than
\* the timeout; the turn's sweep removed it and the turn runs under another
\* identifier with no history
C33_Witness ==
    /\ last.op = "chat"
    /\ \E id \in last.req :
          /\ id \in issued
          /\ id \notin DOMAIN sessions
          /\ \E t \in TurnIds :
                /\ turns[t].pc = "running"
                /\ turns[t].session_id # id
                /\ turns[t].swept = {id}
                /\ turns[t].message_history = None

\* a turn that failed after its tools had appended records
FailedWithRecords(r) == r.pc = "done" /\ r.status = "error" /\ r.own # <<>>

\* C34: records appended by tools during a turn whose generation then fails
\* are never returned in the tool list of a later turn, when turns on the
\* same ChatAgent run one after another: beside a turn that failed with
\* records, every tool list returned holds the records of its own turn only.
C34_FailedTurnRecordsNotReturned ==
    \A t \in TurnIds : \A u \in TurnIds \ {t} :
        (/\ FailedWithRecords(turns[u])
         /\ turns[t].pc = "done"
         /\ turns[t].status = "success")
            => /\ Len(turns[t].tool_calls) = Len(turns[t].own)
               /\ \A i \in 1..Len(turns[t].tool_calls) :
                     turns[t].tool_calls[i] = turns[t].own[i]

\* C34 witness: a turn failed leaving a record, and a turn begun after it has
\* returned a list of its own (the accumulator is empty, so the failure came
\* first)
C34_Witness ==
    /\ tool_calls_metadata = <<>>
    /\ \E t \in TurnIds : \E u \in TurnIds \ {t} :
          /\ FailedWithRecords(turns[u])
          /\ turns[t].pc = "done"
          /\ turns[t].status = "success"
          /\ turns[t].tool_calls # <<>>
          /\ turns[t].tool_calls[1].tool_name # turns[u].own[1].tool_name

\* C35: every record of query_outlets_table for a call in which the
\* translator produced text carries that text in generated_sql, in all three
\* outcomes: successful execution, refusal, and execution fault.
C35_RecordCarriesGeneratedSql ==
    (last.op = "query_outlets_table" /\ ~last.tr.raised) =>
        /\ Len(last.out.appended) = 1
        /\ \A i \in 1..Len(last.out.appended) :
              last.out.appended[i].generated_sql = last.tr.data

\* the translator returned a text and the text, trimmed, is no refusal
PassesRefusalCheck(tr) == ~tr.raised /\ ~startswith(strip(tr.data), <<"-", "-">>)

\* C36: each invocation of query_outlets_table proceeds translating, then
\* validating, then exactly one of executing or refused:
\* Database.execute_query is called at most once per invocation, only after
\* translation has returned and the refusal check has passed, and with the
\* translator's text unchanged.
C36_TranslateValidateExecute ==
    last.op = "query_outlets_table" =>
        LET q == last.out.queries
            refused == /\ ~last.out.raised
                       /\ last.out.ret[1] = "text"
                       /\ last.out.ret[2] = "Cannot generate a safe query for this request."
        IN  /\ Len(q) <= 1
            /\ (Len(q) = 1) <=> PassesRefusalCheck(last.tr)
            /\ Len(q) = 1 => q[1] = last.tr.data
            /\ ~last.tr.raised => (refused <=> Len(q) = 0)

\* C36 witness: one invocation was refused and the next was executed, with a
\* text the translator ended in a semicolon
C36_Witness ==
    /\ Len(invoked) = 2
    /\ invoked[1].tool_name = "query_outlets_table"
    /\ invoked[1].queries = <<>>
    /\ invoked[1].ret = <<"text", "Cannot generate a safe query for this request.">>
    /\ last.op = "query_outlets_table"
    /\ last.out.queries = <<last.tr.data>>
    /\ last.tr.data = <<"s", "e", "l", "e", "c", "t", " ", "*", ";">>

\* the tools whose records a profile's entry point may return
profile_subset(kind) ==
    CASE kind = "products" -> {"get_similar_products"}
      [] kind = "outlets" -> {"query_outlets_table"}
      [] OTHER -> {"addition_calculator", "multiplication_calculator",
                   "get_products", "get_similar_products", "query_outlets_table"}

\* C37: the tool list returned by a turn run through a profile's entry point
\* contains only records of tools in that profile's subset: only
\* get_similar_products records for product_chat, only the outlet SQL tool's
\* records for outlet_chat.
C37_ToolListWithinProfile ==
    \A t \in TurnIds :
        (turns[t].pc = "done" /\ turns[t].status = "success") =>
            \A i \in 1..Len(turns[t].tool_calls) :
                turns[t].tool_calls[i].tool_name \in profile_subset(turns[t].kind)

\* C38: in every reachable state of the session store each session satisfies
\* created_at <= last_activity <= current time; created_at never changes
\* after creation and last_activity never decreases, under any sequence of
\* create, touch, history replacement and sweep.
C38_SessionTimestampsOrdered ==
    [][/\ \A id \in DOMAIN sessions' :
            /\ sessions'[id].created_at <= sessions'[id].last_activity
            /\ sessions'[id].last_activity <= now'
       /\ \A id \in DOMAIN sessions \cap DOMAIN sessions' :
            /\ sessions'[id].created_at = sessions[id].created_at
            /\ sessions'[id].last_activity >= sessions[id].last_activity
      ]_vars

\* C38 witness: a session touched after the clock moved, whose history has
\* just been replaced, beside a session idle since its creation
C38_Witness ==
    /\ last.op = "update_session_history"
    /\ last.ret
    /\ last.h # <<>>
    /\ sessions[last.id].created_at < sessions[last.id].last_activity
    /\ \E other \in DOMAIN sessions : sessions[other].last_activity < now

\* C39: the list returned by get_and_clear_tool_metadata is a snapshot
\* independent of the accumulator: clearing the accumulator or appending
\* records in a later turn never changes a tool list already returned to a
\* caller.
C39_ReturnedListIsSnapshot ==
    [][\A i \in 1..Len(invoked) :
          items_of(invoked'[i].metadata, tool_calls_metadata')
              = items_of(invoked[i].metadata, tool_calls_metadata)
      ]_vars

\* C39 witness: a caller holds a list of two records, a later caller holds a
\* different list, and the accumulator has been appended to since
C39_Witness ==
    /\ Len(invoked) = 2
    /\ Len(items_of(invoked[1].metadata, tool_calls_metadata)) = 2
    /\ Len(items_of(invoked[2].metadata, tool_calls_metadata)) = 1
    /\ tool_calls_metadata # <<>>
    /\ last.op = "tool"

====
